---- MODULE Spec2Model ----
(***************************************************************************)
(* Model of fpunkt/zlog (zlog.go): a console front-end over zerolog.       *)
(*                                                                         *)
(* Text is a sequence of tokens.  A token is one character, or one whole   *)
(* ANSI colour escape sequence ("ESC[38;5;246m", "ESC[0m"), or one opaque  *)
(* word of a message, field or timestamp.  Level tags and labels are       *)
(* spelled character by character so that strings.ToUpper is computed.     *)
(***************************************************************************)
EXTENDS Integers, Sequences, FiniteSets, TLC

VARIABLES
    SupportColors,    \* zlog.go:54-56, set by init() of the platform file
    zlogOptions,      \* zlog.go:369, the Options of the last zconsoleWriter call
    loglevel,         \* zlog.go:386
    TimeFieldFormat,  \* zerolog.TimeFieldFormat, assigned at zlog.go:332
    logger,           \* log.Logger, the global default logger
    ret,              \* the logger most recently returned by New or Tee
    file,             \* the content of the Tee target file (NoFile when absent)
    stderr,           \* the lines the last operation wrote to standard error
    stdout,           \* the lines the last operation wrote to standard output
    err,              \* the *Error value under construction (NoError when none)
    ZlogDropStack,    \* zlog.go:266
    augmented,        \* history: the keys the Augment calls on err added, in order
    result,           \* what the last operation returned / did
    alive             \* FALSE once log.Fatal() has ended the process

vars == <<SupportColors, zlogOptions, loglevel, TimeFieldFormat, logger, ret,
          file, stderr, stdout, err, ZlogDropStack, augmented, result, alive>>

-----------------------------------------------------------------------------
(* Bounds of the model *)

\* levels passed to InitL / New / SetLevel / Logl range over -(MaxLevel+2)..MaxLevel
MaxLevel == 2
\* the Tee target file holds at most this many lines
MaxLines == 2
\* at most this many fields are accumulated on one Error
MaxFields == 4
\* stack traces have 0..MaxFrames frames
MaxFrames == 10
\* ZlogDropStack ranges over -1..MaxDrop
MaxDrop == 3

-----------------------------------------------------------------------------
(* Text *)

Lower == <<"a","b","c","d","e","f","g","h","i","j","k","l","m",
           "n","o","p","q","r","s","t","u","v","w","x","y","z">>
Upper == <<"A","B","C","D","E","F","G","H","I","J","K","L","M",
           "N","O","P","Q","R","S","T","U","V","W","X","Y","Z">>

\* strings.ToUpper, one character
UpperChar(c) ==
    IF \E i \in 1..Len(Lower) : Lower[i] = c
    THEN Upper[CHOOSE i \in 1..Len(Lower) : Lower[i] = c]
    ELSE c

\* strings.ToUpper
ToUpper(s) == [i \in 1..Len(s) |-> UpperChar(s[i])]

\* the colour constants of zlog.go:110-128
ResetColor == <<"ESC[0m">>
Yellow == <<"ESC[38;5;226m">>
Orange == <<"ESC[38;5;208m">>
Gray == <<"ESC[38;5;246m">>
Green == <<"ESC[38;5;10m">>
Red == <<"ESC[38;5;196m">>
Cyan == <<"ESC[38;5;45m">>
Magenta == <<"ESC[38;5;207m">>
Blue == <<"ESC[38;5;33m">>

\* zerolog's own dark gray, used by its default timestamp formatter
DarkGray == <<"ESC[90m">>

EscapeTokens ==
    {ResetColor[1], Yellow[1], Orange[1], Gray[1], Green[1], Red[1], Cyan[1],
     Magenta[1], Blue[1], DarkGray[1]}

\* the text contains a colour escape sequence
HasEscape(s) == \E i \in 1..Len(s) : s[i] \in EscapeTokens

\* unicode.IsSpace on the tokens of the model
IsSpace(c) == c \in {" ", "\n", "\t"}

RECURSIVE TrimLeft(_)
TrimLeft(s) ==
    IF s # <<>> /\ IsSpace(Head(s)) THEN TrimLeft(Tail(s)) ELSE s

RECURSIVE TrimRight(_)
TrimRight(s) ==
    IF s # <<>> /\ IsSpace(s[Len(s)])
    THEN TrimRight(SubSeq(s, 1, Len(s) - 1))
    ELSE s

\* strings.TrimSpace
TrimSpace(s) == TrimRight(TrimLeft(s))

\* one decimal digit
Digit(d) == <<"0","1","2","3","4","5","6","7","8","9">>[d + 1]

\* strconv.Itoa / fmt %d
RECURSIVE Itoa(_)
Itoa(n) ==
    IF n < 0 THEN <<"-">> \o Itoa(0 - n)
    ELSE IF n < 10 THEN <<Digit(n)>>
    ELSE Itoa(n \div 10) \o <<Digit(n % 10)>>

\* fmt %q of a string without characters that need escaping
Quote(s) == <<"\"">> \o s \o <<"\"">>

-----------------------------------------------------------------------------
(* Values of type interface{} handed to a level formatter: a string or nil *)

StrVal(s) == [kind |-> "string", s |-> s]
NilVal == [kind |-> "nil", s |-> <<>>]

trace == <<"t","r","a","c","e">>
debug == <<"d","e","b","u","g">>
info == <<"i","n","f","o">>
warn == <<"w","a","r","n">>
error == <<"e","r","r","o","r">>
fatal == <<"f","a","t","a","l">>
panic == <<"p","a","n","i","c">>
log == <<"l","o","g">>

KnownTags == {trace, debug, info, warn, error, fatal, panic}

\* other values a level field can carry
OtherTags == {log, <<>>, <<"n","o","t","i","c","e">>, <<"W","a","r","n">>, <<"x","1">>}

LevelValues == {StrVal(t) : t \in KnownTags \cup OtherTags} \cup {NilVal}

\* the diagnostic of zlog.go:174, :207 and :241
Diagnostic(ll) == <<"ups, unexpeced level ">> \o Quote(ll) \o <<"\n">>

\* the tail common to the three formatters (zlog.go:177-180, 210-213, 244-247)
Passthrough(i, diag) ==
    IF i.kind = "nil"
    THEN [label |-> <<>>, diag |-> diag]
    ELSE [label |-> ToUpper(i.s), diag |-> diag]

\* the glyphs of formatLevelUnicode, named by code point
SmallBlueDiamond == <<"U+1F539">>
LargeBlueDiamond == <<"U+1F537">>
BlueCircle == <<"U+1F535">>
GreenCircle == <<"U+1F7E2">>
LargeOrangeDiamond == <<"U+1F536">>
CrossMark == <<"U+274C">>

formatLevelUnicode(i) ==
    IF i.kind = "string"
    THEN CASE i.s = trace -> [label |-> SmallBlueDiamond, diag |-> <<>>]
           [] i.s = debug -> [label |-> LargeBlueDiamond, diag |-> <<>>]
           [] i.s = info -> [label |-> GreenCircle, diag |-> <<>>]
           [] i.s = warn -> [label |-> LargeOrangeDiamond, diag |-> <<>>]
           [] i.s = error -> [label |-> CrossMark, diag |-> <<>>]
           [] i.s = fatal -> [label |-> CrossMark, diag |-> <<>>]
           [] i.s = panic -> [label |-> CrossMark, diag |-> <<>>]
           [] i.s = log -> [label |-> <<"L","O","G">>, diag |-> <<>>]
           [] i.s = <<>> -> [label |-> <<"n","o","l","e","v","e","l">>, diag |-> <<>>]
           [] OTHER -> Passthrough(i, <<Diagnostic(i.s)>>)
    ELSE Passthrough(i, <<>>)

\* formatLevelBW without the Printf of its default case
formatLevelBW_NoDiagnostic(i) ==
    IF i.kind = "string"
    THEN CASE i.s = trace -> [label |-> <<"T","R","C">>, diag |-> <<>>]
           [] i.s = debug -> [label |-> <<"D","B","G">>, diag |-> <<>>]
           [] i.s = info -> [label |-> <<"I","N","F">>, diag |-> <<>>]
           [] i.s = warn -> [label |-> <<"W","R","N">>, diag |-> <<>>]
           [] i.s = error -> [label |-> <<"E","R","R">>, diag |-> <<>>]
           [] i.s = fatal -> [label |-> <<"F","T","L">>, diag |-> <<>>]
           [] i.s = panic -> [label |-> <<"P","N","C">>, diag |-> <<>>]
           [] i.s = log -> [label |-> <<"L","O","G">>, diag |-> <<>>]
           [] i.s = <<>> -> [label |-> <<"n","o","l","e","v","e","l">>, diag |-> <<>>]
           [] OTHER -> Passthrough(i, <<>>)
    ELSE Passthrough(i, <<>>)

\* formatLevelBW, zlog.go:185-214
formatLevelBW(i) ==
    IF i.kind = "string"
    THEN CASE i.s = trace -> [label |-> <<"T","R","C">>, diag |-> <<>>]
           [] i.s = debug -> [label |-> <<"D","B","G">>, diag |-> <<>>]
           [] i.s = info -> [label |-> <<"I","N","F">>, diag |-> <<>>]
           [] i.s = warn -> [label |-> <<"W","R","N">>, diag |-> <<>>]
           [] i.s = error -> [label |-> <<"E","R","R">>, diag |-> <<>>]
           [] i.s = fatal -> [label |-> <<"F","T","L">>, diag |-> <<>>]
           [] i.s = panic -> [label |-> <<"P","N","C">>, diag |-> <<>>]
           [] i.s = log -> [label |-> <<"L","O","G">>, diag |-> <<>>]
           [] i.s = <<>> -> [label |-> <<"n","o","l","e","v","e","l">>, diag |-> <<>>]
           [] OTHER -> Passthrough(i, <<Diagnostic(i.s)>>)
    ELSE Passthrough(i, <<>>)

\* sc is the value of SupportColors when the formatter runs
formatLevelColor(i, sc) ==
    IF ~sc THEN formatLevelBW(i)
    ELSE IF i.kind = "string"
    THEN CASE i.s = trace -> [label |-> Gray \o <<"T","R","C">> \o ResetColor, diag |-> <<>>]
           [] i.s = debug -> [label |-> Gray \o <<"D","B","G">> \o ResetColor, diag |-> <<>>]
           [] i.s = info -> [label |-> Green \o <<"I","N","F">> \o ResetColor, diag |-> <<>>]
           [] i.s = warn -> [label |-> Orange \o <<"W","R","N">> \o ResetColor, diag |-> <<>>]
           [] i.s = error -> [label |-> Red \o <<"E","R","R">> \o ResetColor, diag |-> <<>>]
           [] i.s = fatal -> [label |-> Red \o <<"F","T","L">> \o ResetColor, diag |-> <<>>]
           [] i.s = panic -> [label |-> Red \o <<"P","N","C">> \o ResetColor, diag |-> <<>>]
           [] i.s = log -> [label |-> <<"L","O","G">>, diag |-> <<>>]
           [] i.s = <<>> -> [label |-> <<"n","o","l","e","v","e","l">>, diag |-> <<>>]
           [] OTHER -> Passthrough(i, <<Diagnostic(i.s)>>)
    ELSE Passthrough(i, <<>>)

\* LogOutputFormat, zlog.go:93-98
FormatColor == 0
FormatBW == 1
FormatJson == 2
FormatUnicode == 3
Formats == {FormatColor, FormatBW, FormatJson, FormatUnicode}

\* getFormatter returns a function; the model returns its name
getFormatter(format) ==
    CASE format = FormatBW -> "formatLevelBW"
      [] format = FormatUnicode -> "formatLevelUnicode"
      [] format = FormatColor -> "formatLevelColor"
      [] OTHER -> "formatLevelBW"

\* calling the function getFormatter returned
ApplyFormatter(f, i, sc) ==
    CASE f = "formatLevelBW" -> formatLevelBW(i)
      [] f = "formatLevelUnicode" -> formatLevelUnicode(i)
      [] f = "formatLevelColor" -> formatLevelColor(i, sc)

-----------------------------------------------------------------------------
(* Options, console writers and loggers *)

Options(level, timeFormat, format, overwrite) ==
    [Level |-> level, TimeFormat |-> timeFormat, Format |-> format,
     Overwrite |-> overwrite]

\* Options{}, the zero value
ZeroOptions == Options(0, "", FormatColor, FALSE)

\* zerolog.Level, used at zlog.go:396-406
TraceLevel == -1
DebugLevel == 0
InfoLevel == 1
WarnLevel == 2
ErrorLevel == 3
FatalLevel == 4
PanicLevel == 5
NoLevel == 6
Disabled == 7

\* the level of an event with the given level tag (NilVal for Log())
LevelOf(tag) ==
    CASE tag = NilVal -> NoLevel
      [] tag = StrVal(trace) -> TraceLevel
      [] tag = StrVal(debug) -> DebugLevel
      [] tag = StrVal(info) -> InfoLevel
      [] tag = StrVal(warn) -> WarnLevel
      [] tag = StrVal(error) -> ErrorLevel
      [] tag = StrVal(fatal) -> FatalLevel
      [] tag = StrVal(panic) -> PanicLevel

\* the switch of zconsoleWriter on o.TimeFormat: the timestamp function it
\* installs ("unset" when none) and the value o.TimeFormat has afterwards
timestampFormat(tf) ==
    CASE tf = "s" -> [fn |-> "since", TimeFormat |-> ""]
      [] tf = "none" -> [fn |-> "empty", TimeFormat |-> "none"]
      [] tf \in {"", "default"} -> [fn |-> "now", TimeFormat |-> tf]
      [] tf = "highres" -> [fn |-> "nowms", TimeFormat |-> "2006-01-02 15:04:05.000"]
      [] OTHER -> [fn |-> "unset", TimeFormat |-> tf]

\* whether zconsoleWriter installs the coloured field-name functions
colorFields(o, sc) ==
    (o.Format = FormatColor \/ o.Format = FormatUnicode) /\ sc

\* zconsoleWriter: the ConsoleWriter it returns (w) and the globals it assigns.
\* sc is the value of SupportColors during the call.
zconsoleWriter(o, sc) ==
    LET t == timestampFormat(o.TimeFormat) IN
    [w |-> [kind |-> "console",
            Out |-> "stderr",
            append |-> FALSE,
            off |-> 0,
            TimeFormat |-> t.TimeFormat,
            FormatLevel |-> getFormatter(o.Format),
            colorFields |-> colorFields(o, sc),
            FormatTimestamp |-> t.fn,
            NoColor |-> FALSE],
     zlogOptions |-> o,
     TimeFieldFormat |-> t.TimeFormat]

\* a raw byte sink: events reach it JSON-encoded
RawWriter(out, append) ==
    [kind |-> "json", Out |-> out, append |-> append, off |-> 0, TimeFormat |-> "",
     FormatLevel |-> "none", colorFields |-> FALSE, FormatTimestamp |-> "unset",
     NoColor |-> FALSE]

\* zerolog.New(w).With()[.Timestamp()].Logger()
NewLogger(writers, ts) ==
    [writers |-> writers, ts |-> ts, level |-> TraceLevel, context |-> <<>>]

\* zerolog.Nop(), zlog.go:381-384
DisabledLogger == [writers |-> <<>>, ts |-> FALSE, level |-> Disabled, context |-> <<>>]

\* the switch of setlevel with case 1 returning InfoLevel
setlevelOffByOne(level) ==
    LET l == IF level < -3 THEN -3 ELSE level IN
    CASE l = -3 -> FatalLevel
      [] l = -2 -> ErrorLevel
      [] l = -1 -> WarnLevel
      [] l = 0 -> InfoLevel
      [] l = 1 -> InfoLevel
      [] OTHER -> TraceLevel

\* the zerolog level setlevel selects
threshold(level) ==
    LET l == IF level < -3 THEN -3 ELSE level IN
    CASE l = -3 -> FatalLevel
      [] l = -2 -> ErrorLevel
      [] l = -1 -> WarnLevel
      [] l = 0 -> InfoLevel
      [] l = 1 -> DebugLevel
      [] OTHER -> TraceLevel

\* setlevel: the logger it returns and the loglevel it stores
setlevel(lg, level) ==
    [logger |-> [lg EXCEPT !.level = threshold(level)], loglevel |-> level]

\* New: the logger it returns and the globals it assigns
New(o, sc) ==
    LET cw == zconsoleWriter(o, sc)
        sl == setlevel(NewLogger(<<cw.w>>, o.TimeFormat # "none"), o.Level)
    IN  [logger |-> sl.logger, loglevel |-> sl.loglevel,
         zlogOptions |-> cw.zlogOptions, TimeFieldFormat |-> cw.TimeFieldFormat]

-----------------------------------------------------------------------------
(* Events and their rendering by zerolog's ConsoleWriter *)

Field(k, v) == [k |-> k, v |-> v]

\* zerolog.ErrorFieldName
ErrorFieldName == <<"error">>

Event(tag, msg, fields, ts) == [level |-> tag, msg |-> msg, fields |-> fields, ts |-> ts]

\* ConsoleWriter decodes the event into a map: of two fields with one key the
\* later one remains
Dedup(fields) ==
    LET keep == {i \in 1..Len(fields) :
                    \A j \in (i + 1)..Len(fields) : fields[j].k # fields[i].k}
        RECURSIVE pick(_)
        pick(i) ==
            IF i > Len(fields) THEN <<>>
            ELSE IF i \in keep THEN <<fields[i]>> \o pick(i + 1)
            ELSE pick(i + 1)
    IN  pick(1)

\* FormatFieldName / FormatErrFieldName as installed at zlog.go:343-360
FormatFieldName(w, k) ==
    IF k = ErrorFieldName
    THEN IF w.colorFields THEN Red \o <<"error=">> \o ResetColor ELSE <<"error=">>
    ELSE IF w.colorFields THEN Cyan \o k \o <<"=">> \o ResetColor ELSE k \o <<"=">>

\* zerolog's colorize(s, darkGray, noColor)
Colorize(c, s, noColor) == IF noColor THEN s ELSE c \o s \o ResetColor

\* the timestamp part: the functions of zlog.go:307-330, or zerolog's default
FormatTimestamp(w, ev) ==
    CASE w.FormatTimestamp = "since" -> <<"[0000]">>
      [] w.FormatTimestamp = "empty" -> <<>>
      [] w.FormatTimestamp = "now" -> <<"2006-01-02 15:04:05">>
      [] w.FormatTimestamp = "nowms" -> <<"2006-01-02 15:04:05.000">>
      [] OTHER -> Colorize(DarkGray, IF ev.ts THEN <<w.TimeFormat>> ELSE <<"<nil>">>,
                           w.NoColor)

RECURSIVE JoinFields(_, _)
JoinFields(w, fields) ==
    IF fields = <<>> THEN <<>>
    ELSE FormatFieldName(w, Head(fields).k) \o Head(fields).v
         \o (IF Len(fields) > 1 THEN <<" ">> ELSE <<>>)
         \o JoinFields(w, Tail(fields))

\* ConsoleWriter.Write: the line and the diagnostics of the level formatter
RenderConsole(w, ev, sc) ==
    LET t == FormatTimestamp(w, ev)
        l == ApplyFormatter(w.FormatLevel, ev.level, sc)
        fs == Dedup(ev.fields)
        parts == (IF t # <<>> THEN t \o <<" ">> ELSE <<>>)
                 \o (IF l.label # <<>> THEN l.label \o <<" ">> ELSE <<>>)
                 \o ev.msg
    IN  [line |-> parts
                  \o (IF fs # <<>> /\ parts # <<>> THEN <<" ">> ELSE <<>>)
                  \o JoinFields(w, fs) \o <<"\n">>,
         diag |-> l.diag]

RECURSIVE JsonFields(_)
JsonFields(fields) ==
    IF fields = <<>> THEN <<>>
    ELSE Quote(Head(fields).k) \o <<":">> \o Quote(Head(fields).v) \o <<",">>
         \o JsonFields(Tail(fields))

\* the raw event: one JSON object per line
RenderJson(ev) ==
    [line |-> <<"{">>
              \o (IF ev.level.kind = "string"
                  THEN Quote(<<"_zl">>) \o <<":">> \o Quote(ev.level.s) \o <<",">>
                  ELSE <<>>)
              \o JsonFields(ev.fields)
              \o (IF ev.ts THEN Quote(<<"_zts">>) \o <<":", "0", ",">> ELSE <<>>)
              \o Quote(<<"_zm">>) \o <<":">> \o Quote(ev.msg) \o <<"}", "\n">>,
     diag |-> <<>>]

Render(w, ev, sc) ==
    IF w.kind = "console" THEN RenderConsole(w, ev, sc) ELSE RenderJson(ev)

\* Logger.should: the event passes the logger's level
should(lg, lvl) == lg.writers # <<>> /\ lvl >= lg.level

\* what sending one event through lg writes: the lines for each device, in
\* writer order, and the diagnostics printed meanwhile
Send(lg, tag, msg, fields, sc) ==
    LET ev == Event(tag, msg, lg.context \o fields, lg.ts)
        on == should(lg, LevelOf(tag))
        RECURSIVE lines(_, _)
        lines(i, dev) ==
            IF i > Len(lg.writers) THEN <<>>
            ELSE (IF lg.writers[i].Out = dev
                  THEN <<Render(lg.writers[i], ev, sc).line>> ELSE <<>>)
                 \o lines(i + 1, dev)
        RECURSIVE diags(_)
        diags(i) ==
            IF i > Len(lg.writers) THEN <<>>
            ELSE Render(lg.writers[i], ev, sc).diag \o diags(i + 1)
    IN  [enabled |-> on,
         stderr |-> IF on THEN lines(1, "stderr") ELSE <<>>,
         file |-> IF on THEN lines(1, "file") ELSE <<>>,
         buf |-> IF on THEN lines(1, "buf") ELSE <<>>,
         stdout |-> IF on THEN diags(1) ELSE <<>>]

\* the file after `lines` are written through descriptor w (line granularity)
WriteFile(f, w, lines) ==
    IF lines = <<>> THEN f
    ELSE IF w.append THEN [f EXCEPT !.content = @ \o lines]
    ELSE [f EXCEPT !.content =
             SubSeq(@, 1, w.off) \o lines \o
             SubSeq(@, w.off + Len(lines) + 1, Len(@))]

\* the descriptor's offset after the write
Advance(lg, n) ==
    [lg EXCEPT !.writers =
        [i \in 1..Len(lg.writers) |->
            IF lg.writers[i].Out = "file" /\ ~lg.writers[i].append
            THEN [lg.writers[i] EXCEPT !.off = @ + n]
            ELSE lg.writers[i]]]

-----------------------------------------------------------------------------
(* The *Error carrier, zlog.go:474-531 *)

NoError == [Message |-> <<>>, C |-> DisabledLogger, augment |-> -1]

\* NewError: C is log.With(), a context on the global logger
NewErrorValue(msg, lg) == [Message |-> msg, C |-> lg, augment |-> 0]

\* Context.Str / Context.Int: the field is appended to the context
WithField(e, k, v) == [e EXCEPT !.C.context = Append(@, Field(k, v))]

\* the key without the counter
AugmentKeyConstant(n) == <<"nested#">> \o Itoa(1)

\* the key Augment formats with "nested#%d"
AugmentKey(n) == <<"nested#">> \o Itoa(n)

Augment(e, s) ==
    WithField([e EXCEPT !.augment = @ + 1], AugmentKey(e.augment + 1), s)

Str(e, name, value) == WithField(e, name, value)

IntField(e, name, value) == WithField(e, name, Itoa(value))

\* msg is what err.Error() returned
Err(e, msg) == WithField(e, <<"nested">>, msg)

\* Error.Error(): the string it returns and the globals zconsoleWriter assigns
ErrorString(e, sc) ==
    LET cw == zconsoleWriter(Options(0, "none", FormatColor, FALSE), sc)
        output == [cw.w EXCEPT !.Out = "buf"]
        l == [e.C EXCEPT !.writers = <<output>>]
        sent == Send(l, NilVal, e.Message, <<>>, sc)
        RECURSIVE cat(_)
        cat(ls) == IF ls = <<>> THEN <<>> ELSE Head(ls) \o cat(Tail(ls))
    IN  [string |-> TrimSpace(cat(sent.buf)),
         stdout |-> sent.stdout,
         zlogOptions |-> cw.zlogOptions,
         TimeFieldFormat |-> cw.TimeFieldFormat]

-----------------------------------------------------------------------------
(* ZMarshalStack, zlog.go:268-302 *)

\* a frame: the file and line runtime.FuncForPC resolves it to, or unresolved
Frame(path, line, ok) == [file |-> path, line |-> line, ok |-> ok]

\* path.Base of a slash-separated path given as its components
Base(p) == IF p = <<>> THEN "." ELSE p[Len(p)]

StackDiagnostic == <<"Internal zerologformat.306: cannot get fn">>

\* the loop of zlog.go:283-300 from index i (0-based) with b built so far
RECURSIVE StackLoop(_, _, _, _)
StackLoop(st, i, nlevels, b) ==
    IF i >= Len(st) THEN b
    ELSE IF i > nlevels THEN b
    ELSE IF ~st[i + 1].ok THEN StackDiagnostic
    ELSE StackLoop(st, i + 1, nlevels,
                   b \o (IF i > 0 THEN <<" | ">> ELSE <<>>)
                     \o <<Base(st[i + 1].file), ":">> \o Itoa(st[i + 1].line))

\* e is [traced |-> BOOLEAN, st |-> frames]; drop is ZlogDropStack
ZMarshalStack(e, drop) ==
    IF ~e.traced THEN NilVal
    ELSE LET n == Len(e.st)
             nlevels == IF n > drop THEN n - drop ELSE n
         IN  StrVal(StackLoop(e.st, 0, nlevels, <<>>))

\* the number of frames a rendered stack shows
FramesShown(s) == Cardinality({i \in 1..Len(s) : s[i] = ":"})

-----------------------------------------------------------------------------
(* State *)

\* the Tee target before the program runs: absent, or left by a prior run
OldLine == <<"old", "\n">>
NoFile == [exists |-> FALSE, content |-> <<>>]
InitialFiles == {NoFile, [exists |-> TRUE, content |-> <<OldLine>>]}

\* zerolog's log.Logger before InitL: JSON on stderr, with timestamps
DefaultLogger == NewLogger(<<RawWriter("stderr", FALSE)>>, TRUE)

\* the default of ZlogDropStack, zlog.go:266
ZlogDropStackDefault == 8

Init ==
    /\ SupportColors \in BOOLEAN
    /\ zlogOptions = ZeroOptions
    /\ loglevel = 0
    /\ TimeFieldFormat = "2006-01-02T15:04:05Z07:00"
    /\ logger = DefaultLogger
    /\ ret = DisabledLogger
    /\ file \in InitialFiles
    /\ stderr = <<>>
    /\ stdout = <<>>
    /\ err = NoError
    /\ augmented = <<>>
    /\ ZlogDropStack = ZlogDropStackDefault
    /\ result = [op |-> "init"]
    /\ alive = TRUE

-----------------------------------------------------------------------------
(* Operations *)

\* InitL(level): log.Logger = New(Options{Level: level})
InitL(level) ==
    LET n == New(Options(level, "", FormatColor, FALSE), SupportColors) IN
    /\ alive
    /\ UNCHANGED augmented
    /\ logger' = n.logger
    /\ loglevel' = n.loglevel
    /\ zlogOptions' = n.zlogOptions
    /\ TimeFieldFormat' = n.TimeFieldFormat
    /\ result' = [op |-> "InitL", level |-> level]
    /\ stderr' = <<>>
    /\ stdout' = <<>>
    /\ UNCHANGED <<SupportColors, ret, file, err, ZlogDropStack, alive>>

\* ret = New(o)
DoNew(o) ==
    LET n == New(o, SupportColors) IN
    /\ alive
    /\ UNCHANGED augmented
    /\ ret' = n.logger
    /\ loglevel' = n.loglevel
    /\ zlogOptions' = n.zlogOptions
    /\ TimeFieldFormat' = n.TimeFieldFormat
    /\ result' = [op |-> "New", o |-> o]
    /\ stderr' = <<>>
    /\ stdout' = <<>>
    /\ UNCHANGED <<SupportColors, logger, file, err, ZlogDropStack, alive>>

\* SetLevel(level)
SetLevel(level) ==
    LET sl == setlevel(logger, level) IN
    /\ alive
    /\ UNCHANGED augmented
    /\ logger' = sl.logger
    /\ loglevel' = sl.loglevel
    /\ result' = [op |-> "SetLevel", level |-> level]
    /\ stderr' = <<>>
    /\ stdout' = <<>>
    /\ UNCHANGED <<SupportColors, zlogOptions, TimeFieldFormat, ret, file, err,
                   ZlogDropStack, alive>>

\* the logger whose Trace() event Logl returns
LoglLogger(level, lvl, lg) == IF level > lvl THEN DisabledLogger ELSE lg

\* Logl(level).Msg(msg)
Logl(level, msg) ==
    LET sent == Send(LoglLogger(level, loglevel, logger), StrVal(trace), msg, <<>>,
                     SupportColors) IN
    /\ alive
    /\ UNCHANGED augmented
    /\ stderr' = sent.stderr
    /\ stdout' = sent.stdout
    /\ result' = [op |-> "Logl", level |-> level, enabled |-> sent.enabled]
    /\ UNCHANGED <<SupportColors, zlogOptions, loglevel, TimeFieldFormat, logger,
                   ret, file, err, ZlogDropStack, alive>>

\* Fatal() ends the process and Panic() panics once the event is sent
Ends(tag) == tag \in {StrVal(fatal), StrVal(panic)}

\* log.<Level>().Fields(fields).Msg(msg) on the global logger
Emit(tag, msg, fields) ==
    LET sent == Send(logger, tag, msg, fields, SupportColors) IN
    /\ alive
    /\ UNCHANGED augmented
    /\ stderr' = sent.stderr
    /\ stdout' = sent.stdout
    /\ alive' = ~Ends(tag)
    /\ result' = [op |-> "Emit", tag |-> tag, enabled |-> sent.enabled]
    /\ UNCHANGED <<SupportColors, zlogOptions, loglevel, TimeFieldFormat, logger,
                   ret, file, err, ZlogDropStack>>

\* the descriptor of lg's file writer
FileWriters(lg) == {lg.writers[i] : i \in 1..Len(lg.writers)} \cap
                   {w \in {lg.writers[i] : i \in 1..Len(lg.writers)} : w.Out = "file"}

\* the file after lg has written `lines` to it
WriteThrough(f, lg, lines) ==
    IF FileWriters(lg) = {} THEN f
    ELSE WriteFile(f, CHOOSE w \in FileWriters(lg) : TRUE, lines)

\* the same on the logger New or Tee returned
EmitRet(tag, msg, fields) ==
    LET sent == Send(ret, tag, msg, fields, SupportColors) IN
    /\ alive
    /\ UNCHANGED augmented
    /\ ret # DisabledLogger
    /\ Len(file.content) + Len(sent.file) <= MaxLines
    /\ stderr' = sent.stderr
    /\ stdout' = sent.stdout
    /\ file' = WriteThrough(file, ret, sent.file)
    /\ ret' = Advance(ret, Len(sent.file))
    /\ alive' = ~Ends(tag)
    /\ result' = [op |-> "EmitRet", tag |-> tag, enabled |-> sent.enabled,
                  wrote |-> sent.file]
    /\ UNCHANGED <<SupportColors, zlogOptions, loglevel, TimeFieldFormat, logger,
                   err, ZlogDropStack>>

\* the Options Tee works with: the first of the variadic ones, or its default
TeeOptions(options) ==
    IF Len(options) = 0 THEN Options(0, "", FormatBW, FALSE) ELSE options[1]

\* os.OpenFile with O_CREATE|O_WRONLY and O_APPEND or O_TRUNC, zlog.go:433-439

\* with O_APPEND and O_TRUNC exchanged
OpenFileSwapped(f, o) ==
    [exists |-> TRUE, content |-> IF o.Overwrite THEN <<>> ELSE f.content]

\* the file afterwards
OpenFile(f, o) ==
    [exists |-> TRUE, content |-> IF o.Overwrite THEN f.content ELSE <<>>]

\* the value of SupportColors while Tee builds the file writer, zlog.go:452-455
\* without the assignment SupportColors = false
TeeFileColorsLive(o, sc) == sc

TeeFileColors(o, sc) == IF o.Format = FormatBW THEN FALSE ELSE sc

\* the writers of the logger Tee builds, zlog.go:444-464
TeeWriters(o, zo, sc) ==
    LET console == zconsoleWriter(zo, sc).w
        fd == RawWriter("file", o.Overwrite)
    IN  IF o.Format = FormatJson THEN <<console, fd>>
        ELSE <<console,
               [zconsoleWriter(zo, TeeFileColors(o, sc)).w EXCEPT
                   !.Out = "file",
                   !.append = o.Overwrite,
                   !.FormatLevel = "formatLevelBW",
                   !.NoColor = (o.Format = FormatBW)]>>

\* Tee(fname, options...); openOK is whether os.OpenFile succeeds
Tee(options, openOK) ==
    LET o == TeeOptions(options)
        failed == Send(logger, StrVal(fatal), <<"Cannot tee output">>,
                       <<Field(ErrorFieldName, <<"open failed">>)>>, SupportColors)
        cw == zconsoleWriter(zlogOptions, SupportColors)
        sl == setlevel(NewLogger(TeeWriters(o, zlogOptions, SupportColors), TRUE),
                       loglevel)
    IN
    /\ alive
    /\ UNCHANGED augmented
    /\ IF ~openOK
       THEN /\ stderr' = failed.stderr
            /\ stdout' = failed.stdout
            /\ alive' = FALSE
            /\ result' = [op |-> "Tee", o |-> o, opened |-> FALSE]
            /\ UNCHANGED <<zlogOptions, loglevel, TimeFieldFormat, ret, file>>
       ELSE /\ file' = OpenFile(file, o)
            /\ zlogOptions' = cw.zlogOptions
            /\ TimeFieldFormat' = cw.TimeFieldFormat
            /\ ret' = sl.logger
            /\ loglevel' = sl.loglevel
            /\ stderr' = <<>>
            /\ stdout' = <<>>
            /\ result' = [op |-> "Tee", o |-> o, opened |-> TRUE]
            /\ UNCHANGED alive
    /\ UNCHANGED <<SupportColors, logger, err, ZlogDropStack>>

\* err = NewError(msg)
NewError(msg) ==
    /\ alive
    /\ augmented' = <<>>
    /\ err' = NewErrorValue(msg, logger)
    /\ result' = [op |-> "NewError"]
    /\ stderr' = <<>>
    /\ stdout' = <<>>
    /\ UNCHANGED <<SupportColors, zlogOptions, loglevel, TimeFieldFormat, logger,
                   ret, file, ZlogDropStack, alive>>

\* one of err.Augment, err.Str, err.Int, err.Err: e2 is err afterwards
Extend(op, e2) ==
    /\ alive
    /\ augmented' = IF op = "Augment"
                     THEN Append(augmented, e2.C.context[Len(e2.C.context)].k)
                     ELSE augmented
    /\ err # NoError
    /\ Len(err.C.context) < MaxFields
    /\ err' = e2
    /\ result' = [op |-> op]
    /\ stderr' = <<>>
    /\ stdout' = <<>>
    /\ UNCHANGED <<SupportColors, zlogOptions, loglevel, TimeFieldFormat, logger,
                   ret, file, ZlogDropStack, alive>>

DoAugment(s) == Extend("Augment", Augment(err, s))
DoStr(name, value) == Extend("Str", Str(err, name, value))
DoInt(name, value) == Extend("Int", IntField(err, name, value))
DoErr(msg) == Extend("Err", Err(err, msg))

\* err.Error()
DoError ==
    LET r == ErrorString(err, SupportColors) IN
    /\ alive
    /\ UNCHANGED augmented
    /\ err # NoError
    /\ zlogOptions' = r.zlogOptions
    /\ TimeFieldFormat' = r.TimeFieldFormat
    /\ stdout' = r.stdout
    /\ stderr' = <<>>
    /\ result' = [op |-> "Error", string |-> r.string]
    /\ UNCHANGED <<SupportColors, loglevel, logger, ret, file, err, ZlogDropStack,
                   alive>>

\* ZlogDropStack = n
SetDropStack(n) ==
    /\ alive
    /\ UNCHANGED augmented
    /\ ZlogDropStack' = n
    /\ result' = [op |-> "SetDropStack"]
    /\ stderr' = <<>>
    /\ stdout' = <<>>
    /\ UNCHANGED <<SupportColors, zlogOptions, loglevel, TimeFieldFormat, logger,
                   ret, file, err, alive>>

\* ZMarshalStack(e)
DoZMarshalStack(e) ==
    /\ alive
    /\ UNCHANGED augmented
    /\ result' = [op |-> "ZMarshalStack", e |-> e, out |-> ZMarshalStack(e, ZlogDropStack)]
    /\ stderr' = <<>>
    /\ stdout' = <<>>
    /\ UNCHANGED <<SupportColors, zlogOptions, loglevel, TimeFieldFormat, logger,
                   ret, file, err, ZlogDropStack, alive>>

\* getFormatter(format)(i)
Format(format, i) ==
    LET r == ApplyFormatter(getFormatter(format), i, SupportColors) IN
    /\ alive
    /\ UNCHANGED augmented
    /\ result' = [op |-> "Format", format |-> format, i |-> i, label |-> r.label]
    /\ stdout' = r.diag
    /\ stderr' = <<>>
    /\ UNCHANGED <<SupportColors, zlogOptions, loglevel, TimeFieldFormat, logger,
                   ret, file, err, ZlogDropStack, alive>>

-----------------------------------------------------------------------------
(* Inputs *)

Levels == (0 - (MaxLevel + 2))..MaxLevel

\* the level tags of the events zerolog builds: Trace() .. Panic(), and Log()
EventTags == {StrVal(t) : t \in KnownTags} \cup {NilVal}

Msg == <<"m">>

\* the drop counts ZlogDropStack is set to
DropValues == ((0 - 1)..MaxDrop) \cup {ZlogDropStackDefault}

\* a stack of n frames; frame `bad` (0 for none) does not resolve
Stack(n, bad) ==
    [i \in 1..n |-> Frame(<<"home", "src", "main.go">>, 10 + i, i # bad)]

StackErrors ==
    {[traced |-> FALSE, st |-> <<>>]} \cup
    {[traced |-> TRUE, st |-> Stack(n, bad)] : n \in 0..MaxFrames, bad \in {0, 2}}

-----------------------------------------------------------------------------
(* Specifications *)

\* the level machine: InitL, New, SetLevel, Logl and events on the global logger
LevelOptions ==
    {Options(l, "none", FormatBW, FALSE) : l \in {0 - (MaxLevel + 2), MaxLevel}}

Next ==
    \/ \E level \in Levels : InitL(level)
    \/ \E o \in LevelOptions : DoNew(o)
    \/ \E level \in Levels : SetLevel(level)
    \/ \E level \in Levels : Logl(level, Msg)
    \/ \E tag \in EventTags : Emit(tag, Msg, <<>>)

Spec == Init /\ [][Next]_vars

\* the level formatters
NextFmt == \E format \in Formats, i \in LevelValues : Format(format, i)

SpecFmt == Init /\ [][NextFmt]_vars

\* the stack summarizer
NextStack ==
    \/ \E n \in DropValues : SetDropStack(n)
    \/ \E e \in StackErrors : DoZMarshalStack(e)

SpecStack == Init /\ [][NextStack]_vars

\* the Error carrier
ErrNames == {<<"n">>, AugmentKey(1)}

NextErr ==
    \/ \E msg \in {Msg, <<" ", "m", "\n">>} : NewError(msg)
    \/ DoAugment(<<"x">>)
    \/ \E name \in ErrNames : DoStr(name, <<"v">>)
    \/ DoInt(<<"n">>, 12)
    \/ DoErr(<<"boom">>)
    \/ DoError

SpecErr == Init /\ [][NextErr]_vars

\* the console configurations of the tee and configuration machines
ConsoleOptions ==
    {Options(0, tf, f, FALSE) : tf \in {"", "15:04"}, f \in Formats}

TeeCallOptions ==
    {<<>>} \cup {<<Options(0, "", f, ow)>> : f \in Formats, ow \in BOOLEAN}

\* log.Error().Err(e).Str("n", "3").Msg("m") on the tee logger
TeeFields == <<Field(<<"n">>, <<"3">>), Field(ErrorFieldName, <<"boom">>)>>

\* the console configurations of the tee machine: one per format
TeeConsoleOptions == {Options(0, "", f, FALSE) : f \in Formats}

\* the tee machine: console configuration, Tee, and events on the tee logger
NextTee ==
    \/ InitL(0)
    \/ \E o \in TeeConsoleOptions : DoNew(o)
    \/ \E options \in TeeCallOptions, openOK \in BOOLEAN : Tee(options, openOK)
    \/ EmitRet(StrVal(error), Msg, TeeFields)

SpecTee == Init /\ [][NextTee]_vars

\* the configuration machine: console configuration, error rendering and Tee
NextCfg ==
    \/ \E level \in {0, 1} : InitL(level)
    \/ \E o \in ConsoleOptions : DoNew(o)
    \/ \E options \in TeeCallOptions, openOK \in BOOLEAN : Tee(options, openOK)
    \/ NewError(Msg)
    \/ DoError

SpecCfg == Init /\ [][NextCfg]_vars

-----------------------------------------------------------------------------
(* Claims *)

\* the threshold the level table promises for level l
TableThreshold(l) ==
    IF l <= -3 THEN FatalLevel
    ELSE IF l = -2 THEN ErrorLevel
    ELSE IF l = -1 THEN WarnLevel
    ELSE IF l = 0 THEN InfoLevel
    ELSE IF l = 1 THEN DebugLevel
    ELSE TraceLevel

\* the tags among `tags`, in order, whose event lg writes to standard error
RECURSIVE EmittedBy(_, _)
EmittedBy(lg, tags) ==
    IF tags = <<>> THEN <<>>
    ELSE (IF Send(lg, StrVal(Head(tags)), Msg, <<>>, SupportColors).stderr # <<>>
          THEN <<Head(tags)>> ELSE <<>>)
         \o EmittedBy(lg, Tail(tags))

\* C1: the logger InitL, New and SetLevel return for level L has the threshold
\* Fatal (L <= -3), Error (-2), Warn (-1), Info (0), Debug (1), Trace (L >= 2);
\* a larger L never gives a less verbose threshold; and a logger built with
\* level 1 that is asked for Trace, Debug, Info emits exactly Debug and Info.
C1_LevelThreshold ==
    /\ result.op \in {"InitL", "SetLevel"} =>
           logger.level = TableThreshold(result.level)
    /\ result.op = "New" => ret.level = TableThreshold(result.o.Level)
    /\ \A a, b \in Levels : a <= b => threshold(b) <= threshold(a)
    /\ (result.op \in {"InitL", "SetLevel"} /\ result.level = 1) =>
           EmittedBy(logger, <<trace, debug, info>>) = <<debug, info>>
    /\ (result.op = "Emit" /\ logger.level = DebugLevel) =>
           (result.enabled <=> result.tag # StrVal(trace))

\* C1 witness: a logger at level 1 has dropped a Trace event
C1_Witness ==
    /\ result.op = "Emit"
    /\ loglevel = 1
    /\ logger.level = DebugLevel
    /\ result.tag = StrVal(trace)
    /\ ~result.enabled

\* C6 as stated: right after SetLevel(n), the event of Logl(k) is emitted by the
\* global logger exactly when k <= n.
C6_LoglGate ==
    [][(result.op = "SetLevel" /\ result'.op = "Logl") =>
          (result'.enabled <=> result'.level <= result.level)]_vars

FileLabelsPlain(lg) ==
    \A w \in FileWriters(lg) : \A t \in KnownTags :
        ~HasEscape(ApplyFormatter(w.FormatLevel, StrVal(t), SupportColors).label)

\* the field names lg's file sink renders carry no colour escape
FileNamesPlain(lg) ==
    \A w \in FileWriters(lg) :
        /\ ~HasEscape(FormatFieldName(w, <<"n">>))
        /\ ~HasEscape(FormatFieldName(w, ErrorFieldName))

\* C3 as stated: after Tee with a Format other than FormatJson the file sink
\* renders level labels and field names without colour, and the console sink
\* is the one the current console configuration gives.
C3_FileMonochrome ==
    (result.op = "Tee" /\ result.opened /\ result.o.Format # FormatJson) =>
        /\ FileLabelsPlain(ret)
        /\ FileNamesPlain(ret)
        /\ ret.writers[1] = zconsoleWriter(zlogOptions, SupportColors).w

\* C3 amended: after Tee with a Format other than FormatJson the file sink
\* renders level labels without colour; with FormatBW it renders field names
\* and whole lines without colour; with FormatColor or FormatUnicode its field
\* names are coloured exactly when the console's are.  The console sink is the
\* one the preceding New or InitL built.
C3_FileMonochromeBW ==
    [][/\ (result'.op = "Tee" /\ result'.opened /\ result'.o.Format # FormatJson) =>
             /\ FileLabelsPlain(ret')
             /\ result'.o.Format = FormatBW => FileNamesPlain(ret')
             /\ result'.o.Format # FormatBW =>
                    (FileNamesPlain(ret') <=> ~colorFields(zlogOptions, SupportColors))
             /\ result.op = "New" => ret'.writers[1] = ret.writers[1]
             /\ result.op = "InitL" => ret'.writers[1] = logger.writers[1]
       /\ (result'.op = "EmitRet" /\ \E w \in FileWriters(ret) : w.NoColor) =>
             /\ result'.wrote # <<>>
             /\ \A i \in 1..Len(result'.wrote) : ~HasEscape(result'.wrote[i])]_vars

\* C3 witness: a FormatBW tee logger built over a coloured console wrote a line
C3_Witness ==
    /\ result.op = "EmitRet"
    /\ SupportColors
    /\ \E w \in FileWriters(ret) : w.NoColor
    /\ ret.writers[1].colorFields
    /\ result.wrote # <<>>

\* the labels documented for FormatUnicode (README) and the other formats
DocumentedLabel(format, tag, sc) ==
    LET code == CASE tag = trace -> <<"T","R","C">>
                  [] tag = debug -> <<"D","B","G">>
                  [] tag = info -> <<"I","N","F">>
                  [] tag = warn -> <<"W","R","N">>
                  [] tag = error -> <<"E","R","R">>
                  [] tag = fatal -> <<"F","T","L">>
                  [] tag = panic -> <<"P","N","C">>
        colour == CASE tag \in {trace, debug} -> Gray
                    [] tag = info -> Green
                    [] tag = warn -> Orange
                    [] OTHER -> Red
    IN  CASE format = FormatUnicode ->
                 (CASE tag = trace -> LargeBlueDiamond
                    [] tag = debug -> BlueCircle
                    [] tag = info -> GreenCircle
                    [] tag = warn -> LargeOrangeDiamond
                    [] OTHER -> CrossMark)
          [] format = FormatColor /\ sc -> colour \o code \o ResetColor
          [] OTHER -> code

\* C4 as stated: for each format the selected formatter maps each of the seven
\* tags to its documented label.
C4_DocumentedLabels ==
    (result.op = "Format" /\ result.i.kind = "string" /\ result.i.s \in KnownTags) =>
        result.label = DocumentedLabel(result.format, result.i.s, SupportColors)

\* C5 as stated: every value that is not one of the seven tags is rendered
\* upper-cased, with one diagnostic line on standard output.
C5_UnknownUpper ==
    (result.op = "Format" /\ result.i \notin {StrVal(t) : t \in KnownTags}) =>
        /\ result.label = ToUpper(result.i.s)
        /\ Len(stdout) = 1

\* the upper-cased spelling of the unknown tags of the model
Spelled(tag) ==
    CASE tag = <<"n","o","t","i","c","e">> -> <<"N","O","T","I","C","E">>
      [] tag = <<"W","a","r","n">> -> <<"W","A","R","N">>
      [] tag = <<"x","1">> -> <<"X","1">>

\* C5 amended: every string that is not one of the seven tags, nor "log" nor
\* empty, is rendered upper-cased with one diagnostic line naming it; "log"
\* gives LOG, the empty string nolevel and nil the empty label, all three
\* without a diagnostic.
C5_UnknownUpperString ==
    result.op = "Format" =>
        /\ (result.i.kind = "string" /\ result.i.s \notin KnownTags \cup {log, <<>>}) =>
               /\ result.label = Spelled(result.i.s)
               /\ stdout = <<Diagnostic(result.i.s)>>
        /\ result.i = StrVal(log) => (result.label = <<"L","O","G">> /\ stdout = <<>>)
        /\ result.i = StrVal(<<>>) =>
               (result.label = <<"n","o","l","e","v","e","l">> /\ stdout = <<>>)
        /\ result.i = NilVal => (result.label = <<>> /\ stdout = <<>>)

\* C5 witness: an unknown tag went through the monochrome formatter
C5_Witness ==
    /\ result.op = "Format"
    /\ result.format = FormatBW
    /\ result.i = StrVal(<<"n","o","t","i","c","e">>)
    /\ Len(stdout) = 1

\* C7 as stated: of T frames with T > ZlogDropStack at most T - ZlogDropStack
\* are rendered; an error without a stack trace gives nil.
C7_DropFrames ==
    result.op = "ZMarshalStack" =>
        /\ (result.e.traced /\ Len(result.e.st) > ZlogDropStack
                /\ result.out # StrVal(StackDiagnostic)) =>
               FramesShown(result.out.s) <= Len(result.e.st) - ZlogDropStack
        /\ ~result.e.traced => result.out = NilVal

\* the keys nested#1, nested#2, ... in call order
NestedKeys ==
    <<<<"nested#", "1">>, <<"nested#", "2">>, <<"nested#", "3">>,
      <<"nested#", "4">>, <<"nested#", "5">>, <<"nested#", "6">>>>

\* C8: the k-th Augment call on an Error adds the key nested#k, different from
\* the key of every other Augment call, whatever Str, Int and Err calls come
\* between; an Augment call leaves the fields added earlier in place.
C8_AugmentKeys ==
    /\ [](/\ \A i, j \in 1..Len(augmented) :
                i # j => augmented[i] # augmented[j]
          /\ \A k \in 1..Len(augmented) : augmented[k] = NestedKeys[k]
          /\ err # NoError => err.augment = Len(augmented))
    /\ [][result'.op = "Augment" =>
             /\ Len(err'.C.context) = Len(err.C.context) + 1
             /\ SubSeq(err'.C.context, 1, Len(err.C.context)) = err.C.context
             /\ err'.C.context[Len(err'.C.context)].k = NestedKeys[err'.augment]]_vars

\* C8 witness: three Augment calls with a Str call between them
C8_Witness ==
    /\ Len(augmented) = 3
    /\ Len(err.C.context) = 4
    /\ err.C.context[2].k = <<"n">>
    /\ result.op = "Augment"

\* C9 as stated: the string Error() returns has no colour escape sequence, no
\* timestamp and no surrounding white space.
C9_ErrorPlain ==
    result.op = "Error" =>
        /\ ~HasEscape(result.string)
        /\ \A i \in 1..Len(result.string) :
               result.string[i] \notin {"[0000]", "2006-01-02 15:04:05",
                                         "2006-01-02 15:04:05.000", "<nil>"}
        /\ result.string # <<>> =>
               (~IsSpace(Head(result.string))
                /\ ~IsSpace(result.string[Len(result.string)]))

\* C10 as stated: Error() leaves zlogOptions, loglevel and SupportColors as
\* they are, so that the console sink of a later Tee is that of the last New
\* or InitL.
C10_ErrorFrame ==
    [][result'.op = "Error" =>
          /\ zlogOptions' = zlogOptions
          /\ loglevel' = loglevel
          /\ SupportColors' = SupportColors]_vars

====
